---- MODULE Spec2Model ----
(***************************************************************************)
(* SlidingWindowTransform (openbr/plugins/imgproc/slidingwindow.cpp):      *)
(* load of the classifier model, then project over a TemplateList: the     *)
(* multi-scale raster scan, the grouping of the candidates, the fallback   *)
(* rectangle and the emission of one template per rectangle.               *)
(*                                                                         *)
(* Sizes and scores are integers.  The scale factor is an exact rational   *)
(* <<num, den>> in lowest terms; every scale factor used is a dyadic       *)
(* rational, so the double arithmetic of the code is exact on it.          *)
(* Every matrix of an input list holds the same image, so that the         *)
(* classifier, a pure function of the window, scores equal origins equally *)
(* in all of them.                                                         *)
(***************************************************************************)
EXTENDS Integers, Sequences, FiniteSets, TLC

\* ----------------------------------------------------------------- bounds
MaxCols == 7
MaxRows == 2
MaxCandidates == 3
MaxHits == 2
MaxShrink == 1
MaxMats == 2

\* ------------------------------------------------------ program constants
EpsNum == 1
EpsDen == 5
RejectLevel == 1
FallbackConfidence == 1

VARIABLES
    prop,          \* the transform's properties: minSize, maxSize, scaleFactor, minNeighbors
    window,        \* classifier->windowSize(): <<width, height>>
    halfEven,      \* the build's cvRound: ties to even (rint) or away from zero
    image,         \* the image every matrix of the input holds: [rows, cols]
    src,           \* the input TemplateList
    dst,           \* the output TemplateList
    pc,            \* position in load / project
    opened,        \* load: fs.isOpened()
    modelRead,     \* classifier->read() has run
    loadSignalled, \* load reported a failure to its caller
    ti,            \* foreach index into src (1-based)
    i,             \* index of the matrix of src[ti] being processed (0-based)
    factor,        \* <<num, den>>
    x, y,          \* the raster cursor
    scaled,        \* scaledImageSize of the last resize into imageBuffer
    rects, rejectLevels, levelWeights,
    scores,        \* the classifier as a function, decided at the first call on a window
    rowSeen,       \* history: the x origins classified in the current row scan
    lastCall,      \* history: the last classify call <<x, y, factor, score>>
    callParity     \* history: the number of classify calls so far, modulo 2

vars == <<prop, window, halfEven, image, src, dst, pc, opened, modelRead,
          loadSignalled, ti, i, factor, x, y, scaled, rects, rejectLevels,
          levelWeights, scores, rowSeen, lastCall, callParity>>

\* ------------------------------------------------------------- arithmetic
\* cvRound(p/q) for p >= 0, q > 0: nearest integer; a tie goes to the even
\* neighbour (SSE2 / lrint builds) or away from zero (the portable fallback).
CvRound(p, q, even) ==
    LET fl == p \div q
        r  == p % q
    IN  IF 2 * r < q THEN fl
        ELSE IF 2 * r > q THEN fl + 1
        ELSE IF even /\ fl % 2 = 0 THEN fl
        ELSE fl + 1

Min(a, b) == IF a <= b THEN a ELSE b
Max(a, b) == IF a >= b THEN a ELSE b

Rect(rx, ry, rw, rh) == [x |-> rx, y |-> ry, width |-> rw, height |-> rh]

\* ---------------------------------------------------- per-scale geometry
\* line 101
WindowSize(f) ==
    <<CvRound(window[1] * f[1], f[2], halfEven), CvRound(window[2] * f[1], f[2], halfEven)>>

\* line 102
ScaledImageSize(f) ==
    <<CvRound(image.cols * f[2], f[1], halfEven), CvRound(image.rows * f[2], f[1], halfEven)>>

ProcessingRectSizeNoWindow(f) == ScaledImageSize(f)

\* line 103
ProcessingRectSize(f) ==
    <<ScaledImageSize(f)[1] - window[1], ScaledImageSize(f)[2] - window[2]>>

\* lines 91-94
MinObjectSize == <<prop.minSize, prop.minSize>>

MaxObjectSize ==
    IF prop.maxSize <= 0 THEN <<image.cols, image.rows>> ELSE <<prop.maxSize, prop.maxSize>>

\* line 96: Mat imageBuffer(image.rows + 1, image.cols + 1, CV_8U)
BufferCapacity == (image.rows + 1) * (image.cols + 1)

\* line 115
YStep(f) == IF f[1] > 2 * f[2] THEN 1 ELSE 2

\* line 98: factor *= scaleFactor
NextFactor(f) == <<f[1] * prop.scaleFactor[1], f[2] * prop.scaleFactor[2]>>

\* lines 105-108
ScaleBreaks(f) ==
    \/ ProcessingRectSize(f)[1] <= 0
    \/ ProcessingRectSize(f)[2] <= 0
    \/ WindowSize(f)[1] > MaxObjectSize[1]
    \/ WindowSize(f)[2] > MaxObjectSize[2]

\* lines 109-110
ScaleSkipped(f) ==
    \/ WindowSize(f)[1] < MinObjectSize[1]
    \/ WindowSize(f)[2] < MinObjectSize[2]

\* ------------------------------------------------------------ classifier
\* The scores a classifier returns here: a rejection, the boundary score, a
\* detection.
Scores == {0 - 1, 0, 2}

Key == <<factor, x, y>>

NHits == Cardinality({k \in DOMAIN scores : scores[k] >= 0})

\* classify is a pure function of the window: the score of a window is decided
\* at its first classification and returned again at every later one.  The
\* classifiers considered score at most MaxHits windows of the image 0 or above.
ClassifyResults ==
    IF Key \in DOMAIN scores THEN {scores[Key]}
    ELSE {s \in Scores : s < 0 \/ NHits < MaxHits}

Remember(result) ==
    IF Key \in DOMAIN scores THEN scores
    ELSE [k \in DOMAIN scores \cup {Key} |-> IF k = Key THEN result ELSE scores[k]]

\* ------------------------------------------------------------- candidates
IsCandidateOrZero(result) == result >= 0

\* line 122
IsCandidate(result) == result > 0

\* line 123
CandidateRect(cx, cy, f) ==
    Rect(CvRound(cx * f[1], f[2], halfEven), CvRound(cy * f[1], f[2], halfEven),
         WindowSize(f)[1], WindowSize(f)[2])

\* lines 127-128 and the x += yStep of line 117
NextX(result, cx, f) == (IF result = 0 THEN YStep(f) ELSE cx) + YStep(f)

\* ------------------------------------------------------------------- load
\* lines 153-165: an unopened file returns silently; nothing is reported.
Load ==
    /\ pc = "load"
    /\ \E o \in BOOLEAN :
         /\ opened' = o
         /\ modelRead' = o
    /\ loadSignalled' = FALSE
    /\ pc' = "foreach"
    /\ UNCHANGED <<prop, window, halfEven, image, src, dst, ti, i, factor, x, y,
                   scaled, rects, rejectLevels, levelWeights, scores, rowSeen, lastCall, callParity>>

\* ---------------------------------------------------------------- project
TemplateNotEmpty(t) == t.mats # 0

\* line 78: t.empty(), the template holds no matrix
TemplateEmpty(t) == t.mats = 0

\* lines 78-81
ForeachSkip ==
    /\ pc = "foreach"
    /\ ti <= Len(src)
    /\ TemplateEmpty(src[ti]) /\ ~src[ti].file.enrollAll
    /\ dst' = Append(dst, src[ti])
    /\ ti' = ti + 1
    /\ UNCHANGED <<prop, window, halfEven, image, src, pc, opened, modelRead,
                   loadSignalled, i, factor, x, y, scaled, rects, rejectLevels,
                   levelWeights, scores, rowSeen, lastCall, callParity>>

\* line 83, i = 0
ForeachEnter ==
    /\ pc = "foreach"
    /\ ti <= Len(src)
    /\ ~(TemplateEmpty(src[ti]) /\ ~src[ti].file.enrollAll)
    /\ i' = 0
    /\ pc' = "image"
    /\ UNCHANGED <<prop, window, halfEven, image, src, dst, opened, modelRead,
                   loadSignalled, ti, factor, x, y, scaled, rects, rejectLevels,
                   levelWeights, scores, rowSeen, lastCall, callParity>>

\* line 73, the list is exhausted: project returns
ForeachEnd ==
    /\ pc = "foreach"
    /\ ti > Len(src)
    /\ pc' = "done"
    /\ UNCHANGED <<prop, window, halfEven, image, src, dst, opened, modelRead,
                   loadSignalled, ti, i, factor, x, y, scaled, rects, rejectLevels,
                   levelWeights, scores, rowSeen, lastCall, callParity>>

\* lines 83-98: the locals of one image, factor = 1
ImageBegin ==
    /\ pc = "image"
    /\ i < src[ti].mats
    /\ rects' = <<>>
    /\ rejectLevels' = <<>>
    /\ levelWeights' = <<>>
    /\ factor' = <<1, 1>>
    /\ scaled' = <<0, 0>>
    /\ pc' = "scale"
    /\ UNCHANGED <<prop, window, halfEven, image, src, dst, opened, modelRead,
                   loadSignalled, ti, i, x, y, scores, rowSeen, lastCall, callParity>>

\* line 83, i = t.size(): on to the next template
ImageEnd ==
    /\ pc = "image"
    /\ i >= src[ti].mats
    /\ ti' = ti + 1
    /\ pc' = "foreach"
    /\ UNCHANGED <<prop, window, halfEven, image, src, dst, opened, modelRead,
                   loadSignalled, i, factor, x, y, scaled, rects, rejectLevels,
                   levelWeights, scores, rowSeen, lastCall, callParity>>

\* lines 105-108
ScaleBreak ==
    /\ pc = "scale"
    /\ ScaleBreaks(factor)
    /\ pc' = "group"
    /\ UNCHANGED <<prop, window, halfEven, image, src, dst, opened, modelRead,
                   loadSignalled, ti, i, factor, x, y, scaled, rects, rejectLevels,
                   levelWeights, scores, rowSeen, lastCall, callParity>>

\* The model follows a shrinking factor down to 1 / (MaxShrink + 1).
FactorInRange(f) == f[2] <= f[1] * (MaxShrink + 1)

\* lines 109-110: continue runs factor *= scaleFactor
ScaleSkip ==
    /\ pc = "scale"
    /\ ~ScaleBreaks(factor)
    /\ ScaleSkipped(factor)
    /\ FactorInRange(NextFactor(factor))
    /\ factor' = NextFactor(factor)
    /\ UNCHANGED <<prop, window, halfEven, image, src, dst, pc, opened, modelRead,
                   loadSignalled, ti, i, x, y, scaled, rects, rejectLevels,
                   levelWeights, scores, rowSeen, lastCall, callParity>>

\* lines 112-117: resize into the buffer, y = 0, x = 0 (both loops are entered,
\* the processing rectangle being positive)
ScaleScan ==
    /\ pc = "scale"
    /\ ~ScaleBreaks(factor)
    /\ ~ScaleSkipped(factor)
    /\ scaled' = ScaledImageSize(factor)
    /\ x' = 0
    /\ y' = 0
    /\ rowSeen' = {}
    /\ pc' = "classify"
    /\ UNCHANGED <<prop, window, halfEven, image, src, dst, opened, modelRead,
                   loadSignalled, ti, i, factor, rects, rejectLevels,
                   levelWeights, scores, lastCall, callParity>>

\* lines 118-129 and the loop headers of lines 116, 117 and 98: one classify
\* call, the candidate it records, and the cursor's move to the next origin.
Classify ==
    /\ pc = "classify"
    /\ \E result \in ClassifyResults :
         LET nx == NextX(result, x, factor)
             ny == y + YStep(factor)
         IN  /\ IsCandidate(result) => Len(rects) < MaxCandidates
             /\ scores' = Remember(result)
             /\ lastCall' = <<x, y, factor, result>>
             /\ callParity' = 1 - callParity
             /\ IF IsCandidate(result)
                THEN /\ rects' = Append(rects, CandidateRect(x, y, factor))
                     /\ rejectLevels' = Append(rejectLevels, RejectLevel)
                     /\ levelWeights' = Append(levelWeights, result)
                ELSE UNCHANGED <<rects, rejectLevels, levelWeights>>
             /\ IF nx < ProcessingRectSize(factor)[1]
                THEN /\ x' = nx
                     /\ rowSeen' = rowSeen \cup {x}
                     /\ UNCHANGED <<y, factor, pc>>
                ELSE IF ny < ProcessingRectSize(factor)[2]
                THEN /\ x' = 0
                     /\ y' = ny
                     /\ rowSeen' = {}
                     /\ UNCHANGED <<factor, pc>>
                ELSE /\ FactorInRange(NextFactor(factor))
                     /\ factor' = NextFactor(factor)
                     /\ pc' = "scale"
                     /\ UNCHANGED <<x, y, rowSeen>>
    /\ UNCHANGED <<prop, window, halfEven, image, src, dst, opened, modelRead,
                   loadSignalled, ti, i, scaled>>

\* --------------------------------------------------------------- grouping
\* The clusterer of the candidates (groupRectangles, line 133).
\* Two rectangles overlap when their intersection exceeds 1 - eps of the
\* smaller one along the width and along the height.
Similar(r1, r2) ==
    LET iw == Max(0, Min(r1.x + r1.width, r2.x + r2.width) - Max(r1.x, r2.x))
        ih == Max(0, Min(r1.y + r1.height, r2.y + r2.height) - Max(r1.y, r2.y))
    IN  /\ iw * EpsDen > (EpsDen - EpsNum) * Min(r1.width, r2.width)
        /\ ih * EpsDen > (EpsDen - EpsNum) * Min(r1.height, r2.height)

RECURSIVE ClassOf(_, _)
ClassOf(S, rs) ==
    LET T == S \cup {j \in 1..Len(rs) : \E k \in S : Similar(rs[k], rs[j])}
    IN  IF T = S THEN S ELSE ClassOf(T, rs)

RECURSIVE SumOver(_, _)
SumOver(S, f) ==
    IF S = {} THEN 0
    ELSE LET k == CHOOSE k \in S : TRUE IN f[k] + SumOver(S \ {k}, f)

\* The representative of a class: the coordinate-wise average, rounded.
Representative(C, rs) ==
    LET n == Cardinality(C)
    IN  Rect(CvRound(SumOver(C, [k \in C |-> rs[k].x]), n, halfEven),
             CvRound(SumOver(C, [k \in C |-> rs[k].y]), n, halfEven),
             CvRound(SumOver(C, [k \in C |-> rs[k].width]), n, halfEven),
             CvRound(SumOver(C, [k \in C |-> rs[k].height]), n, halfEven))

\* The classes in discovery order (by first member), those with fewer than
\* minNeighbors members dropped; each yields its representative, reject level
\* 1 and the sum of its members' scores.
RECURSIVE GroupFrom(_, _, _)
GroupFrom(k, rs, ws) ==
    IF k > Len(rs) THEN [rects |-> <<>>, rejectLevels |-> <<>>, levelWeights |-> <<>>]
    ELSE LET C    == ClassOf({k}, rs)
             rest == GroupFrom(k + 1, rs, ws)
         IN  IF (\E j \in C : j < k) \/ Cardinality(C) < prop.minNeighbors
             THEN rest
             ELSE [rects |-> <<Representative(C, rs)>> \o rest.rects,
                   rejectLevels |-> <<RejectLevel>> \o rest.rejectLevels,
                   levelWeights |-> <<SumOver(C, [j \in C |-> ws[j]])>> \o rest.levelWeights]

GroupRectangles(rs, ws) == GroupFrom(1, rs, ws)

\* line 133
Group ==
    /\ pc = "group"
    /\ rects' = GroupRectangles(rects, levelWeights).rects
    /\ rejectLevels' = GroupRectangles(rects, levelWeights).rejectLevels
    /\ levelWeights' = GroupRectangles(rects, levelWeights).levelWeights
    /\ pc' = "emit"
    /\ UNCHANGED <<prop, window, halfEven, image, src, dst, opened, modelRead,
                   loadSignalled, ti, i, factor, x, y, scaled, scores, rowSeen, lastCall, callParity>>

\* --------------------------------------------------------------- emission
FullImageRect == Rect(0, 0, image.cols, image.rows)

WithFallbackAlways(rs, enrollAll) == IF rs = <<>> THEN <<FullImageRect>> ELSE rs

\* lines 135-136
WithFallback(rs, enrollAll) ==
    IF ~enrollAll /\ rs = <<>> THEN <<FullImageRect>> ELSE rs

\* lines 140-143 (j counts from 1 here)
Confidence(j) ==
    IF Len(rejectLevels) > j - 1 THEN rejectLevels[j] * levelWeights[j]
    ELSE FallbackConfidence

\* lines 139-146: Template u(t.file, image) with Confidence, the rectangle
\* appended to the file's rectangles and set as Face
Detection(t, r, c) ==
    [file |-> [name |-> t.file.name, enrollAll |-> t.file.enrollAll,
               Confidence |-> <<c>>, Rects |-> Append(t.file.Rects, r), Face |-> <<r>>],
     mats |-> 1]

\* lines 135-148
Emit ==
    /\ pc = "emit"
    /\ LET out == WithFallback(rects, src[ti].file.enrollAll)
       IN  /\ rects' = out
           /\ dst' = dst \o [j \in 1..Len(out) |-> Detection(src[ti], out[j], Confidence(j))]
    /\ i' = i + 1
    /\ pc' = "image"
    /\ UNCHANGED <<prop, window, halfEven, image, src, opened, modelRead,
                   loadSignalled, ti, factor, x, y, scaled, rejectLevels,
                   levelWeights, scores, rowSeen, lastCall, callParity>>

\* ----------------------------------------------------------------- inputs
InputTemplate(n, all, m) ==
    [file |-> [name |-> n, enrollAll |-> all, Confidence |-> <<>>, Rects |-> <<>>,
               Face |-> <<>>],
     mats |-> m]

Properties(minS, maxS, sf, minN) ==
    [minSize |-> minS, maxSize |-> maxS, scaleFactor |-> sf, minNeighbors |-> minN]

ScaleFactors == {<<1, 1>>, <<3, 2>>}

\* Scans of one image of every small size, under every window, scale factor,
\* size limit and rounding.
ScanInputs ==
    [image : [rows : 0..MaxRows, cols : 0..MaxCols],
     window : {<<1, 1>>, <<2, 1>>},
     prop : {Properties(minS, maxS, sf, 1) :
                minS \in {0, 2, MaxCols + 1}, maxS \in {0 - 1, 2, MaxCols + 2},
                sf \in ScaleFactors},
     halfEven : BOOLEAN,
     src : {<<InputTemplate(1, FALSE, 1)>>}]

\* Scans under a scale factor below 1, where every scale enlarges the image.
ShrinkInputs ==
    [image : {[rows |-> 2, cols |-> 3]},
     window : {<<1, 1>>, <<2, 1>>},
     prop : {Properties(minS, 0 - 1, <<3, 4>>, 1) : minS \in {0, 1, 2}},
     halfEven : BOOLEAN,
     src : {<<InputTemplate(1, FALSE, 1)>>}]

\* Scans that reach a factor above 2, where the stride is 1.
StrideOneInputs ==
    [image : {[rows |-> 4, cols |-> 9]},
     window : {<<1, 1>>},
     prop : {Properties(minS, 0 - 1, <<5, 2>>, 1) : minS \in {0, 2}},
     halfEven : BOOLEAN,
     src : {<<InputTemplate(1, FALSE, 1)>>}]

\* Template lists of one or two templates, each of 0..MaxMats matrices.
TemplateLists ==
    {<<InputTemplate(1, a, m)>> : a \in BOOLEAN, m \in 0..MaxMats}
    \cup {<<InputTemplate(1, a, m), InputTemplate(2, b, n)>> :
             a \in BOOLEAN, b \in BOOLEAN, m \in {0, 1}, n \in {0, 1}}

DriverInputs ==
    [image : {[rows |-> 0, cols |-> 5], [rows |-> 2, cols |-> 0],
              [rows |-> MaxRows, cols |-> MaxCols]},
     window : {<<1, 1>>},
     prop : {Properties(0, 0 - 1, <<3, 2>>, minN) : minN \in {1, 2}},
     halfEven : {TRUE},
     src : TemplateLists]

\* A 21 x 9 image scanned with a 6 x 6 window at the scales 9/8 and 81/64.
WideInputs ==
    [image : {[rows |-> 9, cols |-> 21]},
     window : {<<6, 6>>},
     prop : {Properties(7, 8, <<9, 8>>, 1)},
     halfEven : BOOLEAN,
     src : {<<InputTemplate(1, FALSE, 1)>>}]

Inputs == ScanInputs \cup ShrinkInputs \cup StrideOneInputs \cup DriverInputs \cup WideInputs

Init ==
    /\ \E in \in Inputs :
         /\ image = in.image
         /\ window = in.window
         /\ prop = in.prop
         /\ halfEven = in.halfEven
         /\ src = in.src
    /\ dst = <<>>
    /\ pc = "load"
    /\ opened = FALSE
    /\ modelRead = FALSE
    /\ loadSignalled = FALSE
    /\ ti = 1
    /\ i = 0
    /\ factor = <<1, 1>>
    /\ x = 0
    /\ y = 0
    /\ scaled = <<0, 0>>
    /\ rects = <<>>
    /\ rejectLevels = <<>>
    /\ levelWeights = <<>>
    /\ scores = <<>>
    /\ rowSeen = {}
    /\ lastCall = <<>>
    /\ callParity = 0

Next ==
    \/ Load
    \/ ForeachSkip
    \/ ForeachEnter
    \/ ForeachEnd
    \/ ImageBegin
    \/ ImageEnd
    \/ ScaleBreak
    \/ ScaleSkip
    \/ ScaleScan
    \/ Classify
    \/ Group
    \/ Emit

Spec == Init /\ [][Next]_vars

FairSpec == Init /\ [][Next]_vars /\ WF_vars(Next)

\* ================================================================= claims
Inside(r) ==
    /\ r.x >= 0
    /\ r.y >= 0
    /\ r.x + r.width <= image.cols
    /\ r.y + r.height <= image.rows

ScanPhase == pc \in {"scale", "classify", "group"}

\* The records of dst that were built from, or are, the template named k.
OutputOf(k) == SelectSeq(dst, LAMBDA r : r.file.name = k)

\* C1: when the list of grouped rectangles is empty after clustering, the
\* emission step appends exactly one record, with the rectangle
\* (0, 0, image.cols, image.rows) and Confidence 1, if enrollAll is false, and
\* appends nothing if enrollAll is true.
C1_FallbackIffNotEnrollAll ==
    [][(pc = "emit" /\ rects = <<>>) =>
         IF src[ti].file.enrollAll
         THEN dst' = dst
         ELSE /\ Len(dst') = Len(dst) + 1
              /\ SubSeq(dst', 1, Len(dst)) = dst
              /\ dst'[Len(dst')].file.Face = <<Rect(0, 0, image.cols, image.rows)>>
              /\ dst'[Len(dst')].file.Rects = <<Rect(0, 0, image.cols, image.rows)>>
              /\ dst'[Len(dst')].file.Confidence = <<1>>]_vars

\* C1 witness: an image whose only candidate was dropped by the clusterer has
\* been emitted as the one fallback record.
C1_Witness ==
    /\ pc = "image"
    /\ i = 1
    /\ ~src[ti].file.enrollAll
    /\ \E k \in DOMAIN scores : scores[k] > 0
    /\ rejectLevels = <<>>
    /\ Len(dst) = 1
    /\ dst[1].file.Confidence = <<1>>
    /\ dst[1].file.Face = <<Rect(0, 0, image.cols, image.rows)>>

\* C2: for an input of templates that each hold an image, with enrollAll
\* false and scaleFactor > 1, project eventually returns with at least one
\* record in the output (or the candidate list has outgrown MaxCandidates,
\* where the model stops following the run).
C2_ProjectFinishes ==
    (/\ pc = "foreach"
     /\ Len(src) >= 1
     /\ \A k \in 1..Len(src) : ~src[k].file.enrollAll /\ src[k].mats >= 1
     /\ prop.scaleFactor[1] > prop.scaleFactor[2])
    ~> ((pc = "done" /\ Len(dst) >= 1) \/ Len(rects) >= MaxCandidates)

\* C3: every rectangle attached to an emitted record lies inside the image.
C3_EmittedRectsInsideImage ==
    \A k \in 1..Len(dst) :
        \A j \in 1..Len(dst[k].file.Face) : Inside(dst[k].file.Face[j])

\* Part of C3 that the scan and the fallback keep: before the clusterer runs,
\* every candidate rectangle lies inside the image.
ScanRectsInsideImage ==
    pc \in {"scale", "classify", "group"} =>
        \A j \in 1..Len(rects) : Inside(rects[j])

\* C4: with minSize larger than the image in either dimension, or with
\* scaleFactor <= 1, no window is ever classified and no candidate recorded.
C4_DegenerateNeverScans ==
    (\/ prop.minSize > image.cols
     \/ prop.minSize > image.rows
     \/ prop.scaleFactor[1] <= prop.scaleFactor[2])
    => (pc # "classify" /\ (ScanPhase => rects = <<>>))

\* The half of C4 that the code keeps: under a scale factor above 1 a minSize
\* larger than the image in either dimension lets no window be classified.
MinSizeAboveImageNeverScans ==
    (/\ prop.scaleFactor[1] > prop.scaleFactor[2]
     /\ (prop.minSize > image.cols \/ prop.minSize > image.rows))
    => pc # "classify"

\* The half of C9 that the code keeps: under a scale factor of 1 or above the
\* resampled image fits the buffer.
ScaledImageFitsBufferFromOne ==
    prop.scaleFactor[1] >= prop.scaleFactor[2]
    => scaled[1] * scaled[2] <= BufferCapacity

\* C5: whenever classify is about to be called at the origin (x, y), the
\* native-size window at (x, y) lies inside the resampled image.
C5_WindowInsideScaledImage ==
    pc = "classify" =>
        /\ 0 <= x
        /\ 0 <= y
        /\ x + window[1] <= scaled[1]
        /\ y + window[2] <= scaled[2]

\* C5 witness: classify is about to be called at the origin the cursor reached
\* by the reset after a score of 0 further right in the same row.
C5_Witness ==
    /\ pc = "classify"
    /\ lastCall # <<>>
    /\ lastCall[4] = 0
    /\ lastCall[3] = factor
    /\ lastCall[2] = y
    /\ lastCall[1] > x
    /\ x = 2 * YStep(factor)

\* C6: once load has returned without having opened the model file, the
\* failure has been signalled; and no window is classified with the model unset.
C6_LoadFailureSignalled ==
    /\ (pc # "load" /\ ~opened) => loadSignalled
    /\ pc = "classify" => modelRead

\* C7 (as stated): for every processed template of zero area (no matrix, or a
\* matrix of 0 rows or 0 columns) with enrollAll false, the output holds for
\* it exactly the input template, unchanged.
C7_ZeroAreaEmittedUnchanged ==
    \A k \in 1..Len(src) :
        (k < ti /\ ~src[k].file.enrollAll
           /\ (src[k].mats = 0 \/ image.rows = 0 \/ image.cols = 0))
        => OutputOf(k) = <<src[k]>>

\* C7 (amended): for every processed template that holds no matrix, with
\* enrollAll false, the output holds for it exactly the input template,
\* unchanged.
C7_EmptyTemplateEmittedUnchanged ==
    \A k \in 1..Len(src) :
        (k < ti /\ ~src[k].file.enrollAll /\ src[k].mats = 0)
        => OutputOf(k) = <<src[k]>>

\* C7 witness: a template without a matrix and with enrollAll false has been
\* processed, after another one was.
C7_Witness ==
    /\ ti = 3
    /\ src[2].mats = 0
    /\ ~src[2].file.enrollAll
    /\ src[1].mats = 1
    /\ Len(dst) = 2
    /\ dst[2] = src[2]

\* C8: under a scale factor above 1, within the scan of one row no origin is
\* classified twice (so a score of 0 never makes the row's scan classify more
\* origins than a plain rejection would).
C8_NoOriginClassifiedTwice ==
    (pc = "classify" /\ prop.scaleFactor[1] > prop.scaleFactor[2]) => x \notin rowSeen

\* C9: the image resampled into the scratch buffer never exceeds the buffer's
\* (image.rows + 1) * (image.cols + 1) bytes.
C9_ScaledImageFitsBuffer ==
    scaled[1] * scaled[2] <= (image.rows + 1) * (image.cols + 1)

\* C10: a classify call at (x, y) under the factor f with score > 0 appends
\* the rectangle (round(x*f), round(y*f), round(nativeW*f), round(nativeH*f)),
\* the reject level 1 and the score as weight to the three lists, a call with
\* score <= 0 leaves them unchanged; during the scan the three lists have the
\* same length, and they are empty while every window classified was rejected
\* with a negative score.
C10_CandidateIffPositive ==
    /\ [](ScanPhase =>
            /\ Len(rects) = Len(rejectLevels)
            /\ Len(rects) = Len(levelWeights)
            /\ (\A k \in DOMAIN scores : scores[k] < 0) => rects = <<>>)
    /\ [][pc = "classify" =>
            IF lastCall'[4] > 0
            THEN /\ rects' = Append(rects,
                        [x |-> CvRound(x * factor[1], factor[2], halfEven),
                         y |-> CvRound(y * factor[1], factor[2], halfEven),
                         width |-> CvRound(window[1] * factor[1], factor[2], halfEven),
                         height |-> CvRound(window[2] * factor[1], factor[2], halfEven)])
                 /\ rejectLevels' = Append(rejectLevels, 1)
                 /\ levelWeights' = Append(levelWeights, lastCall'[4])
            ELSE /\ rects' = rects
                 /\ rejectLevels' = rejectLevels
                 /\ levelWeights' = levelWeights]_vars

\* C10 witness: at a scale above 1 a rejection and a zero score left the lists
\* alone and a positive score then recorded a candidate away from the origin.
C10_Witness ==
    /\ ScanPhase
    /\ lastCall # <<>>
    /\ lastCall[4] > 0
    /\ lastCall[1] > 0
    /\ factor[1] > factor[2]
    /\ Len(rects) = 1
    /\ rects[1].x > lastCall[1]
    /\ \E k \in DOMAIN scores : scores[k] < 0
    /\ \E k \in DOMAIN scores : scores[k] = 0

====
